---- MODULE Spec2Model ----
(***************************************************************************)
(* Model of the supply-chain dashboard script src/app.py.                  *)
(*                                                                         *)
(* The script is re-run from top to bottom on every user interaction with  *)
(* a sidebar widget.  One action of the model is one such re-run: the      *)
(* widget that changed, then load_data (memoized by st.cache_data),        *)
(* preprocess, the filter widgets, the mask, and the four tabs' metrics    *)
(* and grouped tables.  The chart calls (px.*, st.plotly_chart) belong to  *)
(* the presentation library and are not modelled.                          *)
(***************************************************************************)
EXTENDS Integers, Sequences, FiniteSets, TLC

VARIABLES
    files,        \* the file system: path -> content of the file, fixed during a session
    data_path,    \* the sidebar text input (line 51)
    cache,        \* st.cache_data's store for load_data: set of [path, table]
    loadRuns,     \* path -> number of executions of load_data's body
    widgets,      \* the filter widgets' identity and values (lines 63-66)
    outcome,      \* how the last run ended: "ok", "stopped" (st.stop) or "raised"
    message,      \* st.error text or the name of the exception that escaped
    steps,        \* the stages the last run completed
    df,           \* the enriched table of the last run (line 55)
    df_filtered,  \* line 75
    tab1, tab2, tab3, tab4

vars == <<files, data_path, cache, loadRuns, widgets, outcome, message, steps,
          df, df_filtered, tab1, tab2, tab3, tab4>>

---------------------------------------------------------------------------
(* Bounds of the model.                                                    *)

\* rows of a source table
MaxRows == 2
\* executions of load_data's body per path that the model follows
MaxLoadRuns == 2

---------------------------------------------------------------------------
(* Numbers.  A float cell is NaN, an infinity or an exact fraction n/d     *)
(* with d > 0 in lowest terms.  NaN also stands for NaT in datetime cells. *)

NaN == [k |-> "nan", n |-> 0, d |-> 1]

Inf(sign) == [k |-> "inf", n |-> sign, d |-> 0]

RECURSIVE Gcd(_, _)
Gcd(a, b) == IF b = 0 THEN a ELSE Gcd(b, a % b)

Abs(a) == IF a < 0 THEN -a ELSE a

Sign(a) == IF a < 0 THEN -1 ELSE IF a = 0 THEN 0 ELSE 1

\* a / b in lowest terms, g their greatest common divisor
Reduced(a, b, g) == [k |-> "num", n |-> Sign(b) * (a \div g), d |-> Abs(b) \div g]

Frac(a, b) == Reduced(a, b, Gcd(Abs(a), Abs(b)))

Num(a) == [k |-> "num", n |-> a, d |-> 1]

IsNull(x) == x.k = "nan"

\* x + y and x - y on non-null numbers
FAdd(x, y) == Frac(x.n * y.d + y.n * x.d, x.d * y.d)

FSub(x, y) == Frac(x.n * y.d - y.n * x.d, x.d * y.d)

\* float (numpy) true division: never raises
FDiv(x, y) ==
    IF IsNull(x) \/ IsNull(y) THEN NaN
    ELSE IF y.n = 0 THEN (IF x.n = 0 THEN NaN ELSE Inf(Sign(x.n)))
    ELSE Frac(x.n * y.d, x.d * y.n)

\* x > y and x >= y, False when either side is null
FGt(x, y) == ~IsNull(x) /\ ~IsNull(y) /\ x.n * y.d > y.n * x.d

FGe(x, y) == ~IsNull(x) /\ ~IsNull(y) /\ x.n * y.d >= y.n * x.d

\* the missing value of a text column
NA == "nan"

---------------------------------------------------------------------------
(* Text order.  Python compares the strings of the tables below in this    *)
(* order (by code point).                                                  *)

StrOrder ==
    <<"Accessories", "Binders", "C1", "C2", "Chairs", "Consumer", "Corporate",
      "Critical", "East", "Express", "First Class", "Furniture", "High",
      "Low", "O1", "O2", "O3", "Office Supplies", "P01", "P02", "P03", "P04",
      "P05", "P06", "P07", "P08", "P09", "P10", "P11", "P12", "Same Day",
      "Second Class", "Standard Class", "Technology", "West", "X1", "X2",
      "Y1", "Y2", "nan">>

StrRank(s) == CHOOSE i \in 1..Len(StrOrder) : StrOrder[i] = s

\* lexicographic order on tuples of strings of equal length
RECURSIVE KeyLess(_, _)
KeyLess(a, b) ==
    IF a = <<>> THEN FALSE
    ELSE IF Head(a) = Head(b) THEN KeyLess(Tail(a), Tail(b))
    ELSE StrRank(Head(a)) < StrRank(Head(b))

---------------------------------------------------------------------------
(* The source table.  A date cell is the text "a/b/2024 h:00"; the cell    *)
(* [a |-> 0, b |-> 0, h |-> 0] is an empty or non-date text.  Datetimes    *)
(* are hours since 2024-01-01 00:00, calendar dates are days since then.   *)

DaysInMonth == <<31, 29, 31, 30, 31, 30, 31, 31, 30, 31, 30, 31>>

RECURSIVE DaysBefore(_)
DaysBefore(m) == IF m = 1 THEN 0 ELSE DaysBefore(m - 1) + DaysInMonth[m - 1]

\* pd.to_datetime(..., dayfirst=True, errors='coerce') on one cell
to_datetime(cell) ==
    IF cell.b \in 1..12 /\ cell.a \in 1..DaysInMonth[cell.b]
    THEN Num((DaysBefore(cell.b) + cell.a - 1) * 24 + cell.h)
    ELSE NaN

\* Series.dt.date: the calendar date of a datetime, NaT for NaT
dt_date(ts) == IF IsNull(ts) THEN NaN ELSE Num(ts.n \div 24)

\* Series.dt.days: the whole days of a timedelta (floor), NaN for NaT
dt_days(td) == IF IsNull(td) THEN NaN ELSE Num(td.n \div 24)

\* the month 1..12 of a calendar day
MonthOf(day) ==
    CHOOSE m \in 1..12 : DaysBefore(m) <= day /\ day < DaysBefore(m) + DaysInMonth[m]

\* Series.dt.to_period('M').dt.to_timestamp(): midnight of the first of the month
to_month_start(ts) ==
    IF IsNull(ts) THEN NaN ELSE Num(DaysBefore(MonthOf(ts.n \div 24)) * 24)

\* datetime difference, NaT when either side is NaT
TsSub(x, y) == IF IsNull(x) \/ IsNull(y) THEN NaN ELSE FSub(x, y)

\* the sentinel of line 31
NoSLADays == 999

\* sla_map, lines 25-30: Series.map gives NaN for a key that is not in the dict
sla_map(mode) ==
    CASE mode = "Same Day" -> Num(1)
      [] mode = "First Class" -> Num(2)
      [] mode = "Second Class" -> Num(4)
      [] mode = "Standard Class" -> Num(5)
      [] OTHER -> NaN

fillna(x, v) == IF IsNull(x) THEN Num(v) ELSE x

\* line 31
StandardSLADays(mode) == fillna(sla_map(mode), NoSLADays)

\* a mutant of IsLate: late from the SLA day on
IsLateGe(time, sla) == FGe(time, sla)

\* line 34
IsLate(time, sla) == FGt(time, sla)

\* Series.replace({0: np.nan})
replace_zero(x) == IF ~IsNull(x) /\ x.n = 0 THEN NaN ELSE x

\* a mutant of ProfitMargin: the plain division
ProfitMarginUnguarded(profit, sales) == FDiv(profit, sales)

\* line 37
ProfitMargin(profit, sales) == FDiv(profit, replace_zero(sales))

\* preprocess on one row, lines 17-40
preprocess_row(r) ==
    LET order == to_datetime(r.OrderDate)
        ship == to_datetime(r.ShipDate)
        time == dt_days(TsSub(ship, order))
        sla == StandardSLADays(r.ShipMode)
    IN  [r EXCEPT !.OrderDate = order, !.ShipDate = ship]
        @@ [OrderProcessingTime |-> time,
            StandardSLADays |-> sla,
            IsLate |-> IsLate(time, sla),
            ProfitMargin |-> ProfitMargin(r.Profit, r.Sales),
            order_month |-> to_month_start(order)]

\* preprocess, lines 14-42: no row is dropped or reordered
preprocess(raw) == [i \in 1..Len(raw) |-> preprocess_row(raw[i])]

\* the columns preprocess reads (lines 17, 18, 31, 37): a source without one
\* of them makes it raise KeyError
PreprocessColumns == {"Order Date", "Ship Date", "Ship Mode", "Profit", "Sales"}

\* load_data's body, lines 11-12: the exception it raises, or "none" and the table
load_data_body(content) ==
    IF content.kind = "missing"
    THEN [raised |-> "FileNotFoundError", table |-> <<>>]
    ELSE IF content.kind = "unparseable"
    THEN [raised |-> "ParserError", table |-> <<>>]
    ELSE IF content.lacks \cap PreprocessColumns # {}
    THEN [raised |-> "KeyError", table |-> <<>>]
    ELSE [raised |-> "none", table |-> preprocess(content.rows)]

---------------------------------------------------------------------------
(* Column reductions of pandas.  Sums, means and distinct counts skip the  *)
(* missing values.                                                         *)

RECURSIVE SumSeq(_)
SumSeq(xs) ==
    IF xs = <<>> THEN Num(0)
    ELSE IF IsNull(Head(xs)) THEN SumSeq(Tail(xs))
    ELSE FAdd(Head(xs), SumSeq(Tail(xs)))

Column(t, c) == [i \in 1..Len(t) |-> t[i][c]]

\* Series.sum(): 0 for an empty or all-null column
Sum(t, c) == SumSeq(Column(t, c))

\* Series.count(): the non-null cells
Count(t, c) == Cardinality({i \in 1..Len(t) : ~IsNull(t[i][c])})

\* Series.mean(): NaN for an empty or all-null column
Mean(t, c) == IF Count(t, c) = 0 THEN NaN ELSE FDiv(Sum(t, c), Num(Count(t, c)))

\* Series.nunique() of a text column
NUnique(t, c) == Cardinality({t[i][c] : i \in 1..Len(t)} \ {NA})

\* q + r/d rounded to an integer, half to even
RoundHalfEven(q, r, d) ==
    IF 2 * r > d \/ (2 * r = d /\ q % 2 = 1) THEN q + 1 ELSE q

\* round(x, 2) of a float: half to even, NaN stays NaN
Round2(x) ==
    IF IsNull(x) THEN NaN
    ELSE Frac(RoundHalfEven((100 * x.n) \div x.d, (100 * x.n) % x.d, x.d), 100)

\* int(x) of a number: towards zero
PyInt(x) == IF x.n >= 0 THEN x.n \div x.d ELSE -((-x.n) \div x.d)

\* max(1, x): x when x > 1, else the first argument
PyMax1(x) == IF FGt(x, Num(1)) THEN x ELSE Num(1)

---------------------------------------------------------------------------
(* groupby(...).agg(...).reset_index() and sort_values.                    *)

\* the elements of a finite set in the order Less
SortSet(S, Less(_, _)) ==
    [p \in 1..Cardinality(S) |->
        CHOOSE x \in S : Cardinality({y \in S : Less(y, x)}) = p - 1]

\* the grouping key of a row over text columns
KeyOf(r, cols) == [j \in 1..Len(cols) |-> r[cols[j]]]

HasNullKey(r, cols) == \E j \in 1..Len(cols) : r[cols[j]] = NA

Rows(t, Keep(_)) == SelectSeq(t, Keep)

\* the groups of the keys, in their order, each with its rows in table order
GroupsOf(t, cols, sorted) ==
    [g \in 1..Len(sorted) |->
        [key |-> sorted[g],
         rows |-> LET Keep(r) == KeyOf(r, cols) = sorted[g] IN Rows(t, Keep)]]

\* DataFrame.groupby(cols) with the defaults sort=True, dropna=True: the rows
\* with a null key are in no group, the groups come in key order
GroupBy(t, cols) ==
    GroupsOf(t, cols,
             SortSet({KeyOf(t[i], cols) :
                         i \in {j \in 1..Len(t) : ~HasNullKey(t[j], cols)}},
                     KeyLess))

IntLess(a, b) == a < b

MonthGroupsOf(t, sorted) ==
    [g \in 1..Len(sorted) |->
        [key |-> sorted[g],
         rows |-> LET Keep(r) == ~IsNull(r.order_month) /\ r.order_month.n = sorted[g]
                  IN  Rows(t, Keep)]]

\* groupby('order_month'): the key is a datetime, NaT rows are in no group
GroupByMonth(t) ==
    MonthGroupsOf(t,
        SortSet({t[i].order_month.n : i \in {j \in 1..Len(t) : ~IsNull(t[j].order_month)}},
                IntLess))

\* .agg(...).reset_index(): one row per group
Aggregate(groups, Agg(_)) == [g \in 1..Len(groups) |-> Agg(groups[g])]

\* whether row i comes before row j in the sorted frame: by the value, ties in
\* the order of the frame (the argsort of at most 16 values is an insertion
\* sort; for a descending sort pandas reverses before and after)
SortsBefore(t, c, ascending, i, j) ==
    IF t[i][c] = t[j][c] THEN i < j
    ELSE IF ascending THEN FGt(t[j][c], t[i][c]) ELSE FGt(t[i][c], t[j][c])

\* DataFrame.sort_values(c, ascending=...)
sort_values(t, c, ascending) ==
    LET Place(i) == 1 + Cardinality({j \in 1..Len(t) : SortsBefore(t, c, ascending, j, i)})
    IN  [p \in 1..Len(t) |-> t[CHOOSE i \in 1..Len(t) : Place(i) = p]]

Min(a, b) == IF a < b THEN a ELSE b

\* DataFrame.head(n) and DataFrame.tail(n)
head(t, n) == SubSeq(t, 1, Min(n, Len(t)))

tail(t, n) == SubSeq(t, Len(t) - Min(n, Len(t)) + 1, Len(t))

---------------------------------------------------------------------------
(* The sidebar filter widgets, lines 61-66.  A widget keeps the value the  *)
(* user gave it for as long as it is drawn with the same arguments; drawn  *)
(* with other arguments, or after a run that did not draw it, it starts    *)
(* from its default.                                                       *)

NoWidgets ==
    [date |-> [rendered |-> FALSE, min |-> 0, max |-> 0, value |-> <<>>],
     region |-> [rendered |-> FALSE, options |-> {}, value |-> {}],
     ship |-> [rendered |-> FALSE, options |-> {}, value |-> {}]]

\* the calendar dates of the non-null order dates
OrderDays(t) ==
    {dt_date(t[i].OrderDate).n : i \in {j \in 1..Len(t) : ~IsNull(t[j].OrderDate)}}

SetMin(S) == CHOOSE x \in S : \A y \in S : x <= y

SetMax(S) == CHOOSE x \in S : \A y \in S : x >= y

\* line 63
date_input(w, lo, hi) ==
    IF w.rendered /\ w.min = lo /\ w.max = hi THEN w
    ELSE [rendered |-> TRUE, min |-> lo, max |-> hi, value |-> <<lo, hi>>]

\* lines 65 and 66: options are the non-null values, the default is every value
multiselect(w, values) ==
    IF w.rendered /\ w.options = values \ {NA} THEN w
    ELSE [rendered |-> TRUE, options |-> values \ {NA}, value |-> values \ {NA}]

\* what computing the default of a multiselect raises: sorted() cannot compare
\* NaN with a string, and a default that is not an option is refused
multiselect_raises(values) ==
    IF NA \notin values THEN "none"
    ELSE IF Cardinality(values) > 1 THEN "TypeError"
    ELSE "StreamlitAPIException"

\* the widgets and the exception when line 65 or line 66 raises, else "none"
widgets_drawn(w, date, regionValues, shipValues, raised65, raised66) ==
    IF raised65 # "none"
    THEN [raised |-> raised65,
          widgets |-> [NoWidgets EXCEPT !.date = date]]
    ELSE IF raised66 # "none"
    THEN [raised |-> raised66,
          widgets |-> [NoWidgets EXCEPT !.date = date,
                                        !.region = multiselect(w.region, regionValues)]]
    ELSE [raised |-> "none",
          widgets |-> [date |-> date,
                       region |-> multiselect(w.region, regionValues),
                       ship |-> multiselect(w.ship, shipValues)]]

ColumnValues(t, c) == {t[i][c] : i \in 1..Len(t)}

\* lines 61-66 on the enriched table: the widgets after the run and the
\* exception that ended it, if any
filter_widgets(t, lacks, w) ==
    widgets_drawn(w,
                  date_input(w.date, SetMin(OrderDays(t)), SetMax(OrderDays(t))),
                  ColumnValues(t, "Region"),
                  ColumnValues(t, "ShipMode"),
                  IF "Region" \in lacks THEN "KeyError"
                  ELSE multiselect_raises(ColumnValues(t, "Region")),
                  multiselect_raises(ColumnValues(t, "ShipMode")))

---------------------------------------------------------------------------
(* The mask, lines 69-75.                                                  *)

\* comparisons of an object column of dates with a date: False on NaT
date_ge(x, day) == ~IsNull(x) /\ x.n >= day

date_le(x, day) == ~IsNull(x) /\ x.n <= day

\* Series.isin(values)
isin(x, values) == x \in values

\* a mutant of mask: the datetime compared with midnight of the end date
mask_datetime(r, date_range, regions, ship_modes) ==
    /\ date_ge(dt_date(r.OrderDate), date_range[1])
    /\ ~IsNull(r.OrderDate) /\ r.OrderDate.n <= date_range[2] * 24
    /\ isin(r.Region, regions)
    /\ isin(r.ShipMode, ship_modes)

\* lines 69-74, on one row
mask(r, date_range, regions, ship_modes) ==
    /\ date_ge(dt_date(r.OrderDate), date_range[1])
    /\ date_le(dt_date(r.OrderDate), date_range[2])
    /\ isin(r.Region, regions)
    /\ isin(r.ShipMode, ship_modes)

\* line 75: the rows of the mask, in the order of the table
apply_filter(t, date_range, regions, ship_modes) ==
    LET Keep(r) == mask(r, date_range, regions, ship_modes)
    IN  SelectSeq(t, Keep)

---------------------------------------------------------------------------
(* The four tabs: the scalar metrics and the grouped tables of the         *)
(* filtered table t.  A tab's record says whether it ran to its end and    *)
(* which exception ended it otherwise.  A metric is the number that is     *)
(* handed to the format string.                                            *)

NotRun == [ran |-> FALSE, raised |-> "none"]

Raised(exception) == [ran |-> FALSE, raised |-> exception]

\* the N of head(10) and tail(10), lines 169, 174 and 212
TopN == 10

\* a mutant of late_denominator: the row count itself
late_denominator_unguarded(t) == Len(t)

\* max(1, df_filtered.shape[0]), line 94
late_denominator(t) == IF Len(t) > 1 THEN Len(t) ELSE 1

late_count(t) == Cardinality({i \in 1..Len(t) : t[i].IsLate})

monthly_row(g) ==
    [order_month |-> g.key,
     OrderProcessingTime |-> Mean(g.rows, "OrderProcessingTime")]

mode_avg_row(g) ==
    [ShipMode |-> g.key[1],
     OrderProcessingTime |-> Mean(g.rows, "OrderProcessingTime")]

pri_row(g) ==
    [OrderPriority |-> g.key[1],
     Order_Count |-> NUnique(g.rows, "OrderID"),
     Avg_Time |-> Mean(g.rows, "OrderProcessingTime")]

\* 100 * late_orders / den, line 94: the division of Python raises on 0
Tab1With(t, late_orders, den) ==
    IF den = 0 THEN Raised("ZeroDivisionError")
    ELSE [ran |-> TRUE, raised |-> "none",
          avg_processing |-> Round2(Mean(t, "OrderProcessingTime")),
          total_orders |-> NUnique(t, "OrderID"),
          late_orders |-> late_orders,
          late_pct |-> Frac(100 * late_orders, den),
          monthly |-> Aggregate(GroupByMonth(t), monthly_row),
          mode_avg |-> Aggregate(GroupBy(t, <<"ShipMode">>), mode_avg_row),
          pri |-> Aggregate(GroupBy(t, <<"OrderPriority">>), pri_row)]

\* lines 90-113
Tab1(t) == Tab1With(t, late_count(t), late_denominator(t))

\* the "Profit Margin" metric, line 125
overall_margin(t) == FDiv(Sum(t, "Profit"), PyMax1(Sum(t, "Sales")))

time_agg_row(g) ==
    [order_month |-> g.key,
     Sales |-> Sum(g.rows, "Sales"),
     Profit |-> Sum(g.rows, "Profit")]

disc_prof_row(g) ==
    [SubCategory |-> g.key[1],
     avg_discount |-> Mean(g.rows, "Discount"),
     total_profit |-> Sum(g.rows, "Profit")]

ship_cost_row(g) ==
    [ShipMode |-> g.key[1], Shipping_Cost |-> Sum(g.rows, "Shipping_Cost")]

\* lines 123-145
Tab2(t) ==
    [ran |-> TRUE, raised |-> "none",
     total_sales |-> Sum(t, "Sales"),
     total_profit |-> Sum(t, "Profit"),
     profit_margin |-> overall_margin(t),
     avg_discount |-> Mean(t, "Discount"),
     time_agg |-> Aggregate(GroupByMonth(t), time_agg_row),
     disc_prof |-> Aggregate(GroupBy(t, <<"SubCategory">>), disc_prof_row),
     ship_cost |-> Aggregate(GroupBy(t, <<"ShipMode">>), ship_cost_row)]

\* the metric over a head(1) frame, lines 164, 165, 203 and 204
top_name(frame, c) == IF frame = <<>> THEN "N/A" ELSE frame[1][c]

\* sort_values(c, ascending=False).head(1), lines 160, 161, 200 and 201
top1(t, c) == head(sort_values(t, c, FALSE), 1)

\* line 169
top10_sales(prod_agg) == tail(sort_values(prod_agg, "Sales", TRUE), TopN)

\* line 174
bottom10_profit(prod_agg) == head(sort_values(prod_agg, "Profit", TRUE), TopN)

prod_agg_row(g) ==
    [ProductName |-> g.key[1],
     Sales |-> Sum(g.rows, "Sales"),
     Profit |-> Sum(g.rows, "Profit"),
     Quantity |-> Sum(g.rows, "Quantity")]

\* lines 154-158
prod_agg_of(t) == Aggregate(GroupBy(t, <<"ProductName">>), prod_agg_row)

cat_tree_row(g) ==
    [Category |-> g.key[1],
     SubCategory |-> g.key[2],
     Sales |-> Sum(g.rows, "Sales"),
     Profit |-> Sum(g.rows, "Profit")]

\* lines 160-183 on prod_agg
Tab3With(t, prod_agg) ==
    [ran |-> TRUE, raised |-> "none",
     prod_agg |-> prod_agg,
     best_selling |-> top_name(top1(prod_agg, "Sales"), "ProductName"),
     most_profitable |-> top_name(top1(prod_agg, "Profit"), "ProductName"),
     total_quantity |-> PyInt(Sum(prod_agg, "Quantity")),
     top10_sales |-> top10_sales(prod_agg),
     bottom10_profit |-> bottom10_profit(prod_agg),
     cat_tree |-> Aggregate(GroupBy(t, <<"Category", "SubCategory">>), cat_tree_row)]

\* lines 154-183
Tab3(t) == Tab3With(t, prod_agg_of(t))

sales_row(g) == [key |-> g.key[1], total |-> Sum(g.rows, "Sales")]

profit_row(g) == [key |-> g.key[1], total |-> Sum(g.rows, "Profit")]

reg_seg_row(g) ==
    [Region |-> g.key[1], Segment |-> g.key[2], Sales |-> Sum(g.rows, "Sales")]

\* groupby(c)['Sales'].sum().reset_index(), lines 200, 201 and 207
sales_by(t, c) == Aggregate(GroupBy(t, <<c>>), sales_row)

\* groupby('Customer Name')['Profit'].sum().reset_index(), line 212
profit_by_customer(t) == Aggregate(GroupBy(t, <<"CustomerName">>), profit_row)

\* lines 198-217
Tab4(t) ==
    [ran |-> TRUE, raised |-> "none",
     total_customers |-> NUnique(t, "CustomerID"),
     top_cust |-> top_name(top1(sales_by(t, "CustomerName"), "total"), "key"),
     top_region |-> top_name(top1(sales_by(t, "Region"), "total"), "key"),
     seg |-> sales_by(t, "Segment"),
     cust_profit |-> profit_by_customer(t),
     top_cust_profit |-> head(sort_values(profit_by_customer(t), "total", FALSE), TopN),
     reg_seg |-> Aggregate(GroupBy(t, <<"Region", "Segment">>), reg_seg_row)]

\* the source columns each stage reads first: a source without one of them
\* makes that stage raise KeyError
Tab1Columns == {"Order ID", "Order Priority"}

Tab2Columns == {"Discount", "Sub-Category", "Shipping_Cost"}

Tab3Columns == {"Product Name", "Quantity", "Category"}

Tab4Columns == {"Customer ID", "Customer Name", "Segment"}

---------------------------------------------------------------------------
(* One run of the script.                                                  *)

NotFoundMessage == "File not found. Please check the CSV path in the sidebar."

\* a mutant of cache_lookup: the memo never hits
cache_lookup_off(store, path) == {}

\* st.cache_data, line 9: the entries stored for this argument
cache_lookup(store, path) == {e \in store : e.path = path}

\* st.cache_data, line 9: what is stored after the body ran; a call that
\* raises stores nothing
cache_store(store, path, body) ==
    IF body.raised = "none"
    THEN store \cup {[path |-> path, table |-> body.table]}
    ELSE store

\* load_data(data_path), line 55: the call's result, whether the body ran,
\* and the store afterwards
load_data_with(store, path, hits, body) ==
    IF hits # {}
    THEN [raised |-> "none", table |-> (CHOOSE e \in hits : TRUE).table,
          ran |-> FALSE, store |-> store]
    ELSE [raised |-> body.raised, table |-> body.table,
          ran |-> TRUE, store |-> cache_store(store, path, body)]

load_data(fs, store, path) ==
    load_data_with(store, path, cache_lookup(store, path), load_data_body(fs[path]))

\* a mutant of handles_not_found: the except clause catches nothing
handles_nothing(exception) == FALSE

\* the except clause of line 56
handles_not_found(exception) == exception = "FileNotFoundError"

\* a run that got past the load and ended at an exception before the tabs
ended_early(t, ws, exception, done) ==
    [outcome |-> "raised", message |-> exception, steps |-> done, df |-> t,
     widgets |-> ws, df_filtered |-> <<>>,
     tab1 |-> NotRun, tab2 |-> NotRun, tab3 |-> NotRun, tab4 |-> NotRun]

\* a tab on a source that lacks one of its columns raises KeyError
tab_of(lacks, columns, result) ==
    IF lacks \cap columns # {} THEN Raised("KeyError") ELSE result

\* lines 86-217: the tabs in their order; the first exception ends the run
run_tabs(t, ws, filtered, t1, t2, t3, t4) ==
    LET r2 == IF t1.ran THEN t2 ELSE NotRun
        r3 == IF r2.ran THEN t3 ELSE NotRun
        r4 == IF r3.ran THEN t4 ELSE NotRun
        exception == IF t1.raised # "none" THEN t1.raised
                     ELSE IF r2.raised # "none" THEN r2.raised
                     ELSE IF r3.raised # "none" THEN r3.raised
                     ELSE r4.raised
    IN  [outcome |-> IF exception = "none" THEN "ok" ELSE "raised",
         message |-> exception,
         steps |-> {"load", "widgets", "filter"}
                   \cup (IF t1.ran THEN {"tab1"} ELSE {})
                   \cup (IF r2.ran THEN {"tab2"} ELSE {})
                   \cup (IF r3.ran THEN {"tab3"} ELSE {})
                   \cup (IF r4.ran THEN {"tab4"} ELSE {}),
         df |-> t, widgets |-> ws, df_filtered |-> filtered,
         tab1 |-> t1, tab2 |-> r2, tab3 |-> r3, tab4 |-> r4]

\* lines 69-217 on the filtered table
after_filter(t, lacks, ws, filtered) ==
    run_tabs(t, ws, filtered,
             tab_of(lacks, Tab1Columns, Tab1(filtered)),
             tab_of(lacks, Tab2Columns, Tab2(filtered)),
             tab_of(lacks, Tab3Columns, Tab3(filtered)),
             tab_of(lacks, Tab4Columns, Tab4(filtered)))

\* lines 69-217 with the widgets drawn: date_range[1] of a range that is
\* being picked raises IndexError
after_widgets(t, lacks, fw) ==
    IF fw.raised # "none" THEN ended_early(t, fw.widgets, fw.raised, {"load"})
    ELSE IF Len(fw.widgets.date.value) < 2
    THEN ended_early(t, fw.widgets, "IndexError", {"load", "widgets"})
    ELSE after_filter(t, lacks, fw.widgets,
                      apply_filter(t, fw.widgets.date.value, fw.widgets.region.value,
                                   fw.widgets.ship.value))

\* lines 61-217 on the loaded table
pipeline(t, lacks, w) == after_widgets(t, lacks, filter_widgets(t, lacks, w))

\* a run that ends before line 61
halted(how, text) ==
    [outcome |-> how, message |-> text, steps |-> {}, df |-> <<>>,
     widgets |-> NoWidgets, df_filtered |-> <<>>,
     tab1 |-> NotRun, tab2 |-> NotRun, tab3 |-> NotRun, tab4 |-> NotRun]

\* lines 54-217: the script from the load on, with the sidebar as it stands
script_with(fs, path, w, loaded) ==
    [run |-> IF loaded.raised = "none" THEN pipeline(loaded.table, fs[path].lacks, w)
             ELSE IF handles_not_found(loaded.raised)
             THEN halted("stopped", NotFoundMessage)
             ELSE halted("raised", loaded.raised),
     store |-> loaded.store,
     ran |-> loaded.ran]

script(fs, store, path, w) == script_with(fs, path, w, load_data(fs, store, path))

\* the state after a run
Becomes(r, path, runs) ==
    /\ data_path' = path
    /\ cache' = r.store
    /\ loadRuns' = IF r.ran THEN [runs EXCEPT ![path] = @ + 1] ELSE runs
    /\ widgets' = r.run.widgets
    /\ outcome' = r.run.outcome
    /\ message' = r.run.message
    /\ steps' = r.run.steps
    /\ df' = r.run.df
    /\ df_filtered' = r.run.df_filtered
    /\ tab1' = r.run.tab1
    /\ tab2' = r.run.tab2
    /\ tab3' = r.run.tab3
    /\ tab4' = r.run.tab4
    /\ UNCHANGED files

\* the paths whose load the model still follows
Loadable(path) == cache_lookup(cache, path) # {} \/ loadRuns[path] < MaxLoadRuns

\* the user types another path into the text input of line 51
ChangePath(path) ==
    /\ path # data_path
    /\ Loadable(path)
    /\ Becomes(script(files, cache, path, widgets), path, loadRuns)

\* the values the date input can hold: one or two of the table's order days
DateValues ==
    LET days == OrderDays(df)
    IN  {<<a>> : a \in days} \cup {p \in days \X days : p[1] <= p[2]}

\* the user picks dates in the date input of line 63
ChangeDateRange(value) ==
    /\ widgets.date.rendered
    /\ value # widgets.date.value
    /\ Loadable(data_path)
    /\ Becomes(script(files, cache, data_path, [widgets EXCEPT !.date.value = value]),
               data_path, loadRuns)

\* the user changes the selection of the multiselect of line 65
ChangeRegions(value) ==
    /\ widgets.region.rendered
    /\ value # widgets.region.value
    /\ Loadable(data_path)
    /\ Becomes(script(files, cache, data_path, [widgets EXCEPT !.region.value = value]),
               data_path, loadRuns)

\* the user changes the selection of the multiselect of line 66
ChangeShipModes(value) ==
    /\ widgets.ship.rendered
    /\ value # widgets.ship.value
    /\ Loadable(data_path)
    /\ Becomes(script(files, cache, data_path, [widgets EXCEPT !.ship.value = value]),
               data_path, loadRuns)

Next ==
    \/ \E path \in DOMAIN files : ChangePath(path)
    \/ \E value \in DateValues : ChangeDateRange(value)
    \/ \E value \in SUBSET widgets.region.options : ChangeRegions(value)
    \/ \E value \in SUBSET widgets.ship.options : ChangeShipModes(value)

\* the first run of a session: the default path, nothing stored, no widget drawn
StartsAs(fs, path, r) ==
    /\ files = fs
    /\ data_path = path
    /\ cache = r.store
    /\ loadRuns = [q \in DOMAIN fs |-> IF q = path /\ r.ran THEN 1 ELSE 0]
    /\ widgets = r.run.widgets
    /\ outcome = r.run.outcome
    /\ message = r.run.message
    /\ steps = r.run.steps
    /\ df = r.run.df
    /\ df_filtered = r.run.df_filtered
    /\ tab1 = r.run.tab1
    /\ tab2 = r.run.tab2
    /\ tab3 = r.run.tab3
    /\ tab4 = r.run.tab4

FirstRun(fs, path) == StartsAs(fs, path, script(fs, {}, path, NoWidgets))

---------------------------------------------------------------------------
(* Sources.  Every specification starts from the first run of a session    *)
(* on a file system drawn from a bounded set, and differs from the others  *)
(* only in that set.                                                       *)

\* the default of the text input, line 51
DefaultPath == "Refined and Cleansed_Supply_Chain_Data.csv"

Csv(rows) == [kind |-> "csv", lacks |-> {}, rows |-> rows]

CsvWithout(columns, rows) == [kind |-> "csv", lacks |-> columns, rows |-> rows]

Missing == [kind |-> "missing", lacks |-> {}, rows |-> <<>>]

Unparseable == [kind |-> "unparseable", lacks |-> {}, rows |-> <<>>]

Cell(a, b, h) == [a |-> a, b |-> b, h |-> h]

BadCell == Cell(0, 0, 0)

BaseRow ==
    [OrderID |-> "O1", OrderDate |-> Cell(1, 3, 0), ShipDate |-> Cell(6, 3, 0),
     ShipMode |-> "Standard Class", Region |-> "East", OrderPriority |-> "High",
     Sales |-> Num(10), Profit |-> Num(2), Discount |-> Frac(1, 5),
     Shipping_Cost |-> Num(3), Quantity |-> Num(1), Category |-> "Furniture",
     SubCategory |-> "Chairs", ProductName |-> "P01", CustomerID |-> "C1",
     CustomerName |-> "X1", Segment |-> "Consumer"]

\* rows that differ in the dates, the ship mode and the region
DateRows ==
    <<BaseRow,
     [BaseRow EXCEPT !.OrderID = "O2", !.OrderDate = Cell(5, 3, 12),
                     !.ShipDate = Cell(7, 3, 0), !.ShipMode = "Same Day",
                     !.Region = "West"],
     [BaseRow EXCEPT !.OrderID = "O3", !.OrderDate = Cell(2, 3, 0),
                     !.ShipDate = Cell(5, 3, 0), !.ShipMode = "First Class",
                     !.Region = "West"],
     [BaseRow EXCEPT !.OrderDate = BadCell],
     [BaseRow EXCEPT !.OrderDate = Cell(3, 3, 0), !.ShipDate = BadCell,
                     !.ShipMode = "Second Class", !.Region = "West"],
     [BaseRow EXCEPT !.ShipDate = Cell(31, 3, 0), !.ShipMode = "Express"],
     [BaseRow EXCEPT !.ShipDate = Cell(7, 3, 0), !.ShipMode = NA],
     [BaseRow EXCEPT !.Region = NA]>>

\* rows that differ in the measures and in which grouping key is missing
MeasureRows ==
    <<BaseRow,
     [BaseRow EXCEPT !.OrderID = "O2", !.Sales = Num(0), !.Profit = Num(100),
                     !.Region = "West", !.ProductName = "P02",
                     !.CustomerID = "C2", !.CustomerName = "X2"],
     [BaseRow EXCEPT !.Sales = Num(0), !.Profit = Num(0)],
     [BaseRow EXCEPT !.Sales = Num(0), !.Profit = Num(-5), !.Region = "West"],
     [BaseRow EXCEPT !.Sales = NaN],
     [BaseRow EXCEPT !.Profit = NaN, !.Region = "West"],
     [BaseRow EXCEPT !.Sales = Num(4), !.Profit = Num(-2), !.ProductName = "P02"],
     [BaseRow EXCEPT !.ProductName = NA, !.Region = "West"],
     [BaseRow EXCEPT !.OrderPriority = NA],
     [BaseRow EXCEPT !.Segment = NA],
     [BaseRow EXCEPT !.CustomerName = NA],
     [BaseRow EXCEPT !.SubCategory = NA],
     [BaseRow EXCEPT !.Category = NA]>>

\* the ways to pick n rows of a list of m, in the order of the list
Picks(m, n) == {f \in [1..n -> 1..m] : \A i \in 1..(n - 1) : f[i] <= f[i + 1]}

\* the tables of one to MaxRows rows of the list that have an order date
\* (without one, line 61 hands NaT to the date input)
Tables(rows) ==
    {t \in UNION {{[i \in 1..n |-> rows[f[i]]] : f \in Picks(Len(rows), n)} : n \in 1..MaxRows} :
        \E i \in 1..Len(t) : ~IsNull(to_datetime(t[i].OrderDate))}

ProductNames ==
    <<"P01", "P02", "P03", "P04", "P05", "P06", "P07", "P08", "P09", "P10", "P11", "P12">>

\* tables of TopN + 1 products, one row each, the last product first; the
\* products numbered lo..hi sell 2 and the others 1
RankTables ==
    {[i \in 1..(TopN + 1) |->
        [BaseRow EXCEPT !.ProductName = ProductNames[TopN + 2 - i],
                        !.Sales = Num(IF (TopN + 2 - i) \in S THEN 2 ELSE 1),
                        !.CustomerName = IF i % 2 = 0 THEN "X1" ELSE "X2"]] :
     S \in {lo..hi : lo \in 1..(TopN + 1), hi \in 0..(TopN + 1)}}

\* a session on one table, beside an older export of one order
OneTable(t) == (DefaultPath :> Csv(t)) @@ ("archive.csv" :> Csv(<<BaseRow>>))

\* sessions over well-formed, missing and malformed sources
SessionFiles ==
    LET orders == <<BaseRow, [BaseRow EXCEPT !.OrderID = "O2", !.Region = "West",
                                             !.OrderDate = Cell(2, 3, 0)]>>
        archive == <<[BaseRow EXCEPT !.OrderID = "O3", !.ShipMode = "First Class"]>>
        others == ("archive.csv" :> Csv(archive))
                  @@ ("missing.csv" :> Missing)
                  @@ ("notes.txt" :> Unparseable)
                  @@ ("no_order_date.csv" :> CsvWithout({"Order Date"}, orders))
                  @@ ("no_discount.csv" :> CsvWithout({"Discount"}, orders))
    IN  {(DefaultPath :> Csv(orders)) @@ others, (DefaultPath :> Missing) @@ others}

Init == \E t \in Tables(DateRows) : FirstRun(OneTable(t), DefaultPath)

InitMeasures == \E t \in Tables(MeasureRows) : FirstRun(OneTable(t), DefaultPath)

InitRank == \E t \in RankTables : FirstRun(OneTable(t), DefaultPath)

InitSession == \E fs \in SessionFiles : FirstRun(fs, DefaultPath)

\* sessions on tables that differ in dates, ship modes and regions
Spec == Init /\ [][Next]_vars

\* sessions on tables that differ in measures and missing keys
SpecMeasures == InitMeasures /\ [][Next]_vars

\* sessions on tables of TopN + 1 products
SpecRank == InitRank /\ [][Next]_vars

\* sessions that move between well-formed, missing and malformed sources
SpecSession == InitSession /\ [][Next]_vars

---------------------------------------------------------------------------
(* Properties of the filter and of the per-row fields.                     *)

\* the stages of a run that reaches its last line
AllSteps == {"load", "widgets", "filter", "tab1", "tab2", "tab3", "tab4"}

\* C1: after a run that applied the filter, the filtered table is exactly the
\* rows of the enriched table, in their order, whose order date is non-null
\* with start <= its calendar day <= end (both ends inclusive, the time of
\* day ignored), whose region is among the selected regions and whose ship
\* mode is among the selected ship modes; so an empty selection of regions or
\* of ship modes leaves no row, and a row without order date is never kept.
C1_FilterIff ==
    "filter" \in steps =>
        LET start == widgets.date.value[1]
            end == widgets.date.value[2]
            Included(r) == /\ r.OrderDate.k = "num"
                           /\ start <= r.OrderDate.n \div 24
                           /\ r.OrderDate.n \div 24 <= end
                           /\ r.Region \in widgets.region.value
                           /\ r.ShipMode \in widgets.ship.value
        IN  /\ df_filtered = SelectSeq(df, Included)
            /\ \A i \in 1..Len(df) :
                   (\E j \in 1..Len(df_filtered) : df_filtered[j] = df[i]) <=> Included(df[i])
            /\ (widgets.region.value = {} \/ widgets.ship.value = {}) => df_filtered = <<>>
            /\ \A j \in 1..Len(df_filtered) : df_filtered[j].OrderDate.k = "num"

\* a run whose end date is the day of an order placed at noon, which is kept,
\* beside an order without order date, which is not
C1_Witness ==
    /\ "filter" \in steps
    /\ Len(df) = 2
    /\ Len(df_filtered) = 1
    /\ df_filtered[1].OrderDate.n % 24 # 0
    /\ df_filtered[1].OrderDate.n \div 24 = widgets.date.value[2]
    /\ \E i \in 1..2 : df[i].OrderDate.k = "nan"

\* C2: on every row of the loaded table, the processing time is the whole
\* days from order date to ship date, or null when either date is null; the
\* SLA days are 1, 2, 4, 5 for Same Day, First Class, Second Class, Standard
\* Class and 999 for any other or missing ship mode; and the row is late
\* exactly when the processing time is non-null and strictly greater than
\* the SLA days.
C2_SlaAndLate ==
    "load" \in steps =>
        /\ df # <<>>
        /\ \A i \in 1..Len(df) :
            LET r == df[i]
                sla == CASE r.ShipMode = "Same Day" -> 1
                         [] r.ShipMode = "First Class" -> 2
                         [] r.ShipMode = "Second Class" -> 4
                         [] r.ShipMode = "Standard Class" -> 5
                         [] OTHER -> 999
                dated == r.OrderDate.k = "num" /\ r.ShipDate.k = "num"
            IN  /\ r.StandardSLADays = [k |-> "num", n |-> sla, d |-> 1]
                /\ dated => r.OrderProcessingTime =
                                [k |-> "num", n |-> (r.ShipDate.n - r.OrderDate.n) \div 24, d |-> 1]
                /\ ~dated => r.OrderProcessingTime.k = "nan"
                /\ r.IsLate \in BOOLEAN
                /\ r.IsLate <=> (r.OrderProcessingTime.k = "num"
                                 /\ r.OrderProcessingTime.n > sla)

\* a table with an order that took exactly its SLA days and is not late and an
\* order without processing time that is not late
C2_Witness ==
    /\ "load" \in steps
    /\ \E i \in 1..Len(df) : /\ df[i].OrderProcessingTime = df[i].StandardSLADays
                             /\ ~df[i].IsLate
    /\ \E i \in 1..Len(df) : /\ df[i].OrderProcessingTime.k = "nan"
                             /\ ~df[i].IsLate

\* C3: on every row of the loaded table the profit margin is null when sales
\* is 0 (whatever the profit), is profit / sales when both are present and
\* sales is not 0, is null when either is missing, and is never infinite.
C3_ProfitMargin ==
    "load" \in steps =>
        \A i \in 1..Len(df) :
            LET r == df[i]
                m == r.ProfitMargin
            IN  /\ m.k # "inf"
                /\ (r.Sales.k = "num" /\ r.Sales.n = 0) => m.k = "nan"
                /\ (r.Sales.k = "nan" \/ r.Profit.k = "nan") => m.k = "nan"
                /\ (r.Sales.k = "num" /\ r.Sales.n # 0 /\ r.Profit.k = "num") =>
                       /\ m.k = "num"
                       /\ m.n * r.Sales.n * r.Profit.d = r.Profit.n * r.Sales.d * m.d

\* a table with a row of sales 0 and profit 100 whose margin is null, and a
\* row with a negative margin
C3_Witness ==
    /\ "load" \in steps
    /\ \E i \in 1..Len(df) : /\ df[i].Sales = Num(0)
                             /\ df[i].Profit = Num(100)
                             /\ df[i].ProfitMargin.k = "nan"
    /\ \E i \in 1..Len(df) : df[i].ProfitMargin.k = "num" /\ df[i].ProfitMargin.n < 0

---------------------------------------------------------------------------
(* Properties of the metrics and the grouped tables.                       *)

\* C4: when the total sales of the filtered table is 0, the overall profit
\* margin metric is 0.
C4_OverallMarginZero ==
    ("tab2" \in steps /\ tab2.total_sales = Num(0)) => tab2.profit_margin = Num(0)

\* C5: a run on a well-formed source whose filter keeps no row completes
\* without raising: the sums are 0, the counts are 0, the means are NaN, the
\* late percentage is 0, every grouped table is empty and every top-1 label
\* is "N/A".
C5_EmptyFiltered ==
    ("filter" \in steps /\ df_filtered = <<>>) =>
        /\ outcome = "ok"
        /\ steps = AllSteps
        /\ tab2.total_sales = Num(0) /\ tab2.total_profit = Num(0)
        /\ tab3.total_quantity = 0
        /\ tab1.total_orders = 0 /\ tab1.late_orders = 0
        /\ tab4.total_customers = 0
        /\ tab1.avg_processing = NaN /\ tab2.avg_discount = NaN
        /\ tab1.late_pct = Num(0)
        /\ tab1.monthly = <<>> /\ tab1.mode_avg = <<>> /\ tab1.pri = <<>>
        /\ tab2.time_agg = <<>> /\ tab2.disc_prof = <<>> /\ tab2.ship_cost = <<>>
        /\ tab3.prod_agg = <<>> /\ tab3.top10_sales = <<>>
        /\ tab3.bottom10_profit = <<>> /\ tab3.cat_tree = <<>>
        /\ tab4.seg = <<>> /\ tab4.top_cust_profit = <<>> /\ tab4.reg_seg = <<>>
        /\ tab3.best_selling = "N/A" /\ tab3.most_profitable = "N/A"
        /\ tab4.top_cust = "N/A" /\ tab4.top_region = "N/A"

\* a run on a table with rows of which the filter keeps none
C5_Witness ==
    /\ "filter" \in steps
    /\ df # <<>>
    /\ df_filtered = <<>>
    /\ tab4.ran

\* C9: a row whose grouping key is null is counted in a group of its own, so
\* the group totals of every grouped table add up to the total of the same
\* measure over the filtered table.
C9_GroupTotals ==
    "tab4" \in steps =>
        /\ Sum(tab2.time_agg, "Sales") = Sum(df_filtered, "Sales")
        /\ Sum(tab2.time_agg, "Profit") = Sum(df_filtered, "Profit")
        /\ Sum(tab2.disc_prof, "total_profit") = Sum(df_filtered, "Profit")
        /\ Sum(tab3.prod_agg, "Sales") = Sum(df_filtered, "Sales")
        /\ Sum(tab3.prod_agg, "Profit") = Sum(df_filtered, "Profit")
        /\ Sum(tab3.cat_tree, "Sales") = Sum(df_filtered, "Sales")
        /\ Sum(tab4.seg, "total") = Sum(df_filtered, "Sales")
        /\ Sum(tab4.cust_profit, "total") = Sum(df_filtered, "Profit")
        /\ Sum(tab4.reg_seg, "Sales") = Sum(df_filtered, "Sales")

\* C10: ties in a top-N selection are broken by input order: the best-selling
\* product is the first product in the order of the product table with the
\* greatest sales, the top-10 products by sales are the first ten in the
\* order of decreasing sales with the earlier product first among equals, and
\* the best-selling product is one of the top-10 products by sales.
C10_TopNStable ==
    ("tab3" \in steps /\ tab3.prod_agg # <<>>) =>
        LET t == tab3.prod_agg
            Before(i, j) == \/ t[i].Sales.n * t[j].Sales.d > t[j].Sales.n * t[i].Sales.d
                            \/ t[i].Sales = t[j].Sales /\ i < j
            Place(i) == 1 + Cardinality({j \in 1..Len(t) : Before(j, i)})
            shown == {tab3.top10_sales[k].ProductName : k \in 1..Len(tab3.top10_sales)}
        IN  /\ tab3.best_selling = t[CHOOSE i \in 1..Len(t) : Place(i) = 1].ProductName
            /\ shown = {t[i].ProductName : i \in {j \in 1..Len(t) : Place(j) <= TopN}}
            /\ tab3.best_selling \in shown

---------------------------------------------------------------------------
(* Properties of loading.                                                  *)

\* C6 as stated: the body of load_data runs at most once per distinct path.
C6_AtMostOncePerPath ==
    \A p \in DOMAIN loadRuns : loadRuns[p] <= 1

\* C6 amended: the body of load_data runs at most once per distinct path
\* whose load succeeds; a run on a path that is in the store does not run the
\* body and works on the stored table; a run that changes a filter widget
\* only never runs the body.  (A path whose load raises is read again.)
C6_AtMostOncePerLoadedPath ==
    /\ [](\A p \in DOMAIN loadRuns :
            /\ (files[p].kind = "csv" /\ files[p].lacks \cap PreprocessColumns = {})
                   => loadRuns[p] <= 1
            /\ (\E e \in cache : e.path = p) => loadRuns[p] = 1)
    /\ [][/\ (\E e \in cache : e.path = data_path') =>
                 /\ loadRuns' = loadRuns
                 /\ cache' = cache
                 /\ \E e \in cache : e.path = data_path' /\ df' = e.table
          /\ data_path' = data_path => loadRuns' = loadRuns]_vars

\* the user went from the first path to the archive and back, each loaded
\* once, and then changed a filter
C6_Witness ==
    /\ data_path = DefaultPath
    /\ loadRuns[DefaultPath] = 1
    /\ loadRuns["archive.csv"] = 1
    /\ outcome = "ok"
    /\ widgets.region.value # widgets.region.options

\* C7: a run on a path without file shows the not-found message and halts
\* before the widgets, the filter and the tabs; this holds on every run
\* while the path names no file; and the run after the user enters a path
\* of a well-formed file completes every stage.
C7_NotFoundHalts ==
    /\ [](/\ files[data_path].kind = "missing" =>
                /\ outcome = "stopped"
                /\ message = NotFoundMessage
                /\ steps = {}
                /\ ~widgets.date.rendered /\ ~widgets.region.rendered
                /\ ~widgets.ship.rendered
                /\ ~tab1.ran /\ ~tab2.ran /\ ~tab3.ran /\ ~tab4.ran
          /\ outcome = "stopped" => files[data_path].kind = "missing")
    /\ [][(outcome = "stopped" /\ files[data_path'].kind = "csv"
              /\ files[data_path'].lacks = {})
             => (outcome' = "ok" /\ steps' = AllSteps /\ message' = "none")]_vars

\* the first path named no file and the run halted; the user entered the
\* archive's path and that run completed
C7_Witness ==
    /\ files[DefaultPath].kind = "missing"
    /\ loadRuns = [p \in DOMAIN loadRuns |->
                      IF p \in {DefaultPath, "archive.csv"} THEN 1 ELSE 0]
    /\ data_path = "archive.csv"
    /\ outcome = "ok"
    /\ steps = AllSteps

\* C8: a run on a source that cannot be parsed or that lacks a required
\* column fails with an outcome of its own that is reported to the user: it
\* does not complete, it is not reported as file-not-found, it is not an
\* unhandled exception, and no filter or tab runs on it.
C8_MalformedReported ==
    (\/ files[data_path].kind = "unparseable"
     \/ files[data_path].kind = "csv" /\ files[data_path].lacks # {}) =>
        /\ outcome = "stopped"
        /\ message # NotFoundMessage
        /\ steps \cap {"filter", "tab1", "tab2", "tab3", "tab4"} = {}

====
